---- MODULE Spec2Model ----
(***************************************************************************)
(* A model of proteoTorch/plotQvals.py: the multiplicative congruential    *)
(* generator doRand, the cross-validation fold partitioner                 *)
(* partitionCvBins with its caller disagreedPsms_computeSimilarity, the    *)
(* target-decoy competition loaders and the score polarity selection.      *)
(*                                                                         *)
(* Python integers are unbounded.  The generator's modulus 4294967291 and  *)
(* the products it reduces exceed the integers of the model checker, so a  *)
(* generator state is held as a pair <<hi, lo>> of 16-bit limbs standing   *)
(* for hi * 2^16 + lo, and the arithmetic of line 52 is carried out        *)
(* exactly on limbs.                                                       *)
(***************************************************************************)
EXTENDS Integers, Sequences, FiniteSets, TLC

VARIABLES
    \* ---- interpreter and module state
    pyTrueDiv,    \* TRUE: "/" on ints is true division (Python 3); FALSE: floor (Python 2)
    _seed,        \* the module global _seed: <<>> while the name is unbound, else a limb pair
    \* ---- the data set being partitioned (scan id of each row of the PIN file)
    pin,
    \* ---- one activation of partitionCvBins
    cvPc,         \* position of the call: "idle", "for", "while", "redraw", "assign", or an exception name
    cvArgs,       \* [rows, sids, folds, seed]: the arguments of the running call
    trainKeys, testKeys, remain, prevSid, randIdx, it,
    lastDraw,     \* history: state before, state after and value returned by the latest doRand
    returned,     \* history: arguments and result of every partitionCvBins call that returned
    \* ---- one activation of a target-decoy competition loader
    tdLoader,     \* the loader called
    tdWrite,      \* writeOutput
    outputDirectory, \* TRUE: a directory is given; FALSE: None
    tdIn,         \* the input files: [rows, targets, decoys]
    tdPc,         \* "start", "compete", "loaded", "done" ("parked" when not followed)
    tdPos,        \* rows of the current file already read
    posOrNegative_coeff,
    allScores,    \* bucket key -> (score, label), or -> list of (score, label)
    keyOrder,     \* the keys of allScores in insertion order (the dict's iteration order)
    mapScanMassToId,
    targetCheck, decoyCheck,
    tdOut,        \* the lists returned: [scores, labels, ids, keys]; keys is history
    tdFile,       \* the lines of the file written: the header, then [id, score, label]
    submitted,    \* history: every (key, id, score, label) entered into the competition
    tdRun,        \* 1: first run; 2: the run on the first run's output
    tdFirst,      \* history: the lines written by the first run
    ltsResult,    \* what load_test_scores returned: [qs, ps, naq, negated]
    rowS, rowLabel, \* the loader's locals s and label: <<>> while unbound, else <<value>>
    opened,       \* history: the file handles opened by the call, in order
    closed,       \* history: the file handles closed by the call, in order
    \* ---- the scan of a q-value curve by load_test_scores
    scCurve,      \* [qs, ps] as the q-value primitive returned them
    numIdentifiedAtQ,
    scPc,         \* "scan", "done"
    \* ---- one method of mainPlot: its descriptor, parse_arg and load_test_scores
    arIn,         \* the call: its entry point, the files named, which of them exist
    fns,          \* the filenames load_test_scores is given: indices of the files named
    arLoader,     \* the loader load_test_scores chose, "" before
    filesRead,    \* the files opened for reading
    arPc,
    \* ---- disagreedDecoys
    ddIn,         \* psmsA, psmsB, labelsB, threshA, threshB; the id of entry i is i
    ranksA,       \* psmId -> i, the rank being i / denom
    ddI,          \* entries of method B's ordering gone through
    ddLines,      \* the lines of outputFile
    counter,
    ddReported,   \* the count printed, <<>> before
    ddPc,
    \* ---- decileInfo
    dcIn,         \* scores and labels
    ind,          \* elements of the ascending ordering gone through
    decile,
    currDecile,
    numTargetsInDecile,
    numDecoysInDecile,
    decileTargets,
    decileDecoys,
    decileRatios, \* fractions <<targets, decoys>>
    dcPc

cvVars == <<pyTrueDiv, _seed, pin, cvPc, cvArgs, trainKeys, testKeys, remain,
            prevSid, randIdx, it, lastDraw, returned>>

tdVars == <<tdLoader, tdWrite, tdIn, tdPc, tdPos, posOrNegative_coeff, allScores,
            keyOrder, mapScanMassToId, targetCheck, decoyCheck, tdOut, tdFile,
            submitted, tdRun, tdFirst, ltsResult, outputDirectory, rowS, rowLabel,
            opened, closed>>

scVars == <<scCurve, numIdentifiedAtQ, scPc>>

arVars == <<arIn, fns, arLoader, filesRead, arPc>>

ddVars == <<ddIn, ranksA, ddI, ddLines, counter, ddReported, ddPc>>

dcVars == <<dcIn, ind, decile, currDecile, numTargetsInDecile, numDecoysInDecile, decileTargets, decileDecoys, decileRatios, dcPc>>

vars == <<cvVars, tdVars, scVars, arVars, ddVars, dcVars>>

\* What the steps of one component leave alone
notCv == <<tdVars, scVars, arVars, ddVars, dcVars>>
notTd == <<cvVars, scVars, arVars, ddVars, dcVars>>
notSc == <<cvVars, tdVars, arVars, ddVars, dcVars>>
notAr == <<cvVars, tdVars, scVars, ddVars, dcVars>>
notDd == <<cvVars, tdVars, scVars, arVars, dcVars>>
notDc == <<cvVars, tdVars, scVars, arVars, ddVars>>

EmptyMap == [k \in {} |-> 0]
NoInput == [rows |-> <<>>, targets |-> <<>>, decoys |-> <<>>]
NoOutput == [scores |-> <<>>, labels |-> <<>>, ids |-> <<>>, keys |-> <<>>]

\* The values of a component's variables while another component is followed
CvParked ==
    /\ pyTrueDiv = FALSE /\ _seed = <<>> /\ pin = <<>> /\ cvPc = "parked"
    /\ cvArgs = <<>> /\ trainKeys = <<>> /\ testKeys = <<>> /\ remain = <<>>
    /\ prevSid = 0 /\ randIdx = 0 /\ it = 0 /\ lastDraw = <<>> /\ returned = <<>>

TdParked ==
    /\ tdLoader = "none" /\ tdWrite = FALSE /\ tdIn = NoInput /\ tdPc = "parked"
    /\ tdPos = 0 /\ posOrNegative_coeff = 1 /\ allScores = EmptyMap
    /\ keyOrder = <<>> /\ mapScanMassToId = EmptyMap
    /\ targetCheck = {} /\ decoyCheck = {}
    /\ tdOut = NoOutput /\ tdFile = <<>> /\ submitted = {}
    /\ tdRun = 1 /\ tdFirst = <<>> /\ ltsResult = <<>>
    /\ outputDirectory = FALSE /\ rowS = <<>> /\ rowLabel = <<>>
    /\ opened = <<>> /\ closed = <<>>

ScParked ==
    /\ scCurve = <<>> /\ numIdentifiedAtQ = 0 /\ scPc = "parked"

ArParked ==
    /\ arIn = <<>> /\ fns = <<>> /\ arLoader = "" /\ filesRead = {} /\ arPc = "parked"

DdParked ==
    /\ ddIn = <<>> /\ ranksA = <<>> /\ ddI = 0 /\ ddLines = <<>> /\ counter = 0
    /\ ddReported = <<>> /\ ddPc = "parked"

DcParked ==
    /\ dcIn = <<>> /\ ind = 0 /\ decile = 0 /\ currDecile = 0
    /\ numTargetsInDecile = 0 /\ numDecoysInDecile = 0
    /\ decileTargets = <<>> /\ decileDecoys = <<>> /\ decileRatios = <<>>
    /\ dcPc = "parked"

OthersParked(g) ==
    /\ IF g = "cv" THEN TRUE ELSE CvParked
    /\ IF g = "td" THEN TRUE ELSE TdParked
    /\ IF g = "sc" THEN TRUE ELSE ScParked
    /\ IF g = "ar" THEN TRUE ELSE ArParked
    /\ IF g = "dd" THEN TRUE ELSE DdParked
    /\ IF g = "dc" THEN TRUE ELSE DcParked

-----------------------------------------------------------------------------
(* Bounds of the model *)

MaxLen == 4       \* longest data set (rows)
MaxSid == 2       \* scan ids are 1..MaxSid
MaxFolds == 3     \* fold counts are 1..MaxFolds
MaxSeed == 2      \* seeds passed by callers are 0..MaxSeed

Sids == 1..MaxSid
Folds == 1..MaxFolds
Seeds == 0..MaxSeed
SidLists == UNION {[1..n -> Sids] : n \in 0..MaxLen}
CallNos == {1, 2} \* the model follows two successive calls

-----------------------------------------------------------------------------
(* Sequence helpers *)

Range(s) == {s[i] : i \in 1..Len(s)}

Iota(n) == [i \in 1..n |-> i]

RECURSIVE SumSeq(_)
SumSeq(s) == IF s = <<>> THEN 0 ELSE Head(s) + SumSeq(Tail(s))

-----------------------------------------------------------------------------
(* Limb arithmetic for line 52 *)

LimbBase == 2^16

\* 4294967291 = 65535 * 2^16 + 65531
Modulus == <<65535, 65531>>

Multiplier == 279470273

Limbs(n) == <<n \div LimbBase, n % LimbBase>>

LimbLess(a, b) == a[1] < b[1] \/ (a[1] = b[1] /\ a[2] < b[2])

\* The value hi * 2^16 + lo reduced modulo Modulus, for any hi, lo >= 0 that
\* fit the checker's integers: 2^32 is congruent to 5 modulo 2^32 - 5.
RECURSIVE Reduce(_, _)
Reduce(hi, lo) ==
    LET h == hi + (lo \div LimbBase)
        l == lo % LimbBase
    IN  IF h >= LimbBase
        THEN Reduce(h % LimbBase, l + 5 * (h \div LimbBase))
        ELSE IF LimbLess(<<h, l>>, Modulus)
             THEN <<h, l>>
             ELSE <<h - Modulus[1], l - Modulus[2]>>

\* (s * c) % 4294967291 for a limb pair s and a multiplier c whose partial
\* products fit the checker's integers (as Multiplier's do), by the schoolbook
\* product of the limbs: with s = a*2^16 + b and c = c1*2^16 + c0,
\* s*c = a*c1*2^32 + (a*c0 + b*c1)*2^16 + b*c0.
MulMod(s, c) ==
    LET a == s[1]
        b == s[2]
        c1 == c \div LimbBase
        c0 == c % LimbBase
        top == 5 * a * c1
        low == b * c0
    IN  Reduce(a * c0 + b * c1 + (top \div LimbBase) + (low \div LimbBase),
               (top % LimbBase) + (low % LimbBase))

\* v % k for a limb pair v and a small k >= 1
LimbMod(v, k) == ((v[1] % k) * (LimbBase % k) + (v[2] % k)) % k

\* doRand, mutated: a slip in the multiplier
doRandWrongMultiplier(s) ==
    LET n == MulMod(s, Multiplier + 2)
    IN  [seed |-> n, value |-> n]

\* doRand, lines 50-53: the new value of _seed and the value returned
doRand(s) ==
    LET n == MulMod(s, Multiplier)
    IN  [seed |-> n, value |-> n]

-----------------------------------------------------------------------------
(* partitionCvBins and its caller *)

DefaultFolds == 3
DefaultSeed == 1

Min(a, b) == IF a < b THEN a ELSE b

\* Lines 61-65.  Capacities are rationals with denominator folds; the model
\* holds their numerators, so remain[i] here is folds times the code's
\* remain[i].  Under floor division r = n \div folds; under true division
\* r = n / folds and every capacity is n / folds.
InitialRemain(n, folds, trueDiv) ==
    LET rK == IF trueDiv THEN n ELSE folds * (n \div folds)   \* folds * r
        first == folds * n - (folds - 1) * rK
    IN  [i \in 1..folds |-> IF i = 1 THEN first ELSE rK]

\* sortRowIndicesBySid of proteoTorch.analyze: the row indices in ascending
\* order of scan id (rows of one scan id keep their order), and the scan ids
\* in that order.
RECURSIVE InsertBySid(_, _, _)
InsertBySid(sorted, i, sids) ==
    IF sorted = <<>> THEN <<i>>
    ELSE IF sids[sorted[Len(sorted)]] <= sids[i]
         THEN Append(sorted, i)
         ELSE Append(InsertBySid(SubSeq(sorted, 1, Len(sorted) - 1), i, sids),
                     sorted[Len(sorted)])

RECURSIVE SortedRowsUpTo(_, _)
SortedRowsUpTo(sids, n) ==
    IF n = 0 THEN <<>> ELSE InsertBySid(SortedRowsUpTo(sids, n - 1), n, sids)

sortRowIndicesBySid(sids) ==
    LET rows == SortedRowsUpTo(sids, Len(sids))
    IN  [sids |-> [i \in 1..Len(sids) |-> sids[rows[i]]], rows |-> rows]

NoDraw == <<>>
Draw(before, d) == <<[prev |-> before, seed |-> d.seed, value |-> d.value]>>

\* Lines 56-69: entry of partitionCvBins with the module global holding g.
\* sids[0] of an empty list raises IndexError (line 66); doRand with _seed
\* unbound raises NameError (line 52, reached from line 68).
Enter(rows, sids, folds, seed, g) ==
    /\ cvArgs' = [rows |-> rows, sids |-> sids, folds |-> folds, seed |-> seed]
    /\ trainKeys' = [i \in 1..folds |-> <<>>]
    /\ testKeys' = [i \in 1..folds |-> <<>>]
    /\ remain' = InitialRemain(Len(sids), folds, pyTrueDiv)
    /\ it' = 0
    /\ IF Len(sids) = 0
       THEN /\ cvPc' = "IndexError"
            /\ _seed' = g
            /\ prevSid' = 0 /\ randIdx' = 0 /\ lastDraw' = lastDraw
       ELSE IF g = <<>>
       THEN /\ cvPc' = "NameError"
            /\ _seed' = g
            /\ prevSid' = sids[1] /\ randIdx' = 0 /\ lastDraw' = lastDraw
       ELSE LET d == doRand(g)
            IN  /\ cvPc' = "for"
                /\ _seed' = d.seed
                /\ prevSid' = sids[1]
                /\ randIdx' = LimbMod(d.value, folds)
                /\ lastDraw' = Draw(g, d)

\* A caller invokes partitionCvBins(featureMatRowIndices, sids, folds, seed)
\* on the rows of the data set in file order.
CallPartitionCvBins ==
    /\ cvPc = "idle"
    /\ Len(returned) < Cardinality(CallNos)
    /\ \E folds \in Folds, seed \in Seeds :
          Enter(Iota(Len(pin)), pin, folds, seed, _seed)
    /\ UNCHANGED notCv
    /\ UNCHANGED <<pyTrueDiv, pin, returned>>

\* disagreedPsms_computeSimilarity, lines 88-100: binds the global to its
\* seed argument, sorts the rows by scan id and partitions them with the
\* default fold count and seed argument.
CallDisagreedPsms ==
    /\ cvPc = "idle"
    /\ Len(returned) < Cardinality(CallNos)
    /\ \E seed \in Seeds :
          LET s == sortRowIndicesBySid(pin)
          IN  Enter(s.rows, s.sids, DefaultFolds, DefaultSeed, Limbs(seed))
    /\ UNCHANGED notCv
    /\ UNCHANGED <<pyTrueDiv, pin, returned>>

ZipLen == Min(Len(cvArgs.rows), Len(cvArgs.sids))

\* Line 71, mutated: a fold is also drawn when the current fold is full
SidChangedOrFull(sid) == sid # prevSid \/ remain[randIdx + 1] <= 0

\* Line 71
SidChanged(sid) == sid # prevSid

\* Lines 70-73: the next (k, sid) pair; a changed scan id draws a fold.
ForNext ==
    /\ cvPc = "for"
    /\ it < ZipLen
    /\ IF SidChanged(cvArgs.sids[it + 1])
       THEN LET d == doRand(_seed)
            IN  /\ _seed' = d.seed
                /\ randIdx' = LimbMod(d.value, cvArgs.folds)
                /\ lastDraw' = Draw(_seed, d)
                /\ cvPc' = "while"
       ELSE /\ cvPc' = "assign"
            /\ UNCHANGED <<_seed, randIdx, lastDraw>>
    /\ UNCHANGED notCv
    /\ UNCHANGED <<pyTrueDiv, pin, cvArgs, trainKeys, testKeys, remain, prevSid, it, returned>>

\* Line 74: the loop test
WhileTest ==
    /\ cvPc = "while"
    /\ cvPc' = IF remain[randIdx + 1] <= 0 THEN "redraw" ELSE "assign"
    /\ UNCHANGED notCv
    /\ UNCHANGED <<pyTrueDiv, _seed, pin, cvArgs, trainKeys, testKeys, remain,
                   prevSid, randIdx, it, lastDraw, returned>>

\* Line 76: the loop body
Redraw ==
    /\ cvPc = "redraw"
    /\ LET d == doRand(_seed)
       IN  /\ _seed' = d.seed
           /\ randIdx' = LimbMod(d.value, cvArgs.folds)
           /\ lastDraw' = Draw(_seed, d)
    /\ cvPc' = "while"
    /\ UNCHANGED notCv
    /\ UNCHANGED <<pyTrueDiv, pin, cvArgs, trainKeys, testKeys, remain, prevSid, it, returned>>

\* Lines 77-81, mutated: the test fold trains on the row as well
PlaceInAllTrain(keys, k, test) ==
    [i \in 1..Len(keys) |->
        IF test => (i - 1 = randIdx) THEN Append(keys[i], k) ELSE keys[i]]

\* Lines 77-81: fold randIdx tests row k, every other fold trains on it
Place(keys, k, test) ==
    [i \in 1..Len(keys) |->
        IF (i - 1 = randIdx) = test THEN Append(keys[i], k) ELSE keys[i]]

\* Lines 77-85
Assign ==
    /\ cvPc = "assign"
    /\ LET k == cvArgs.rows[it + 1]
       IN  /\ testKeys' = Place(testKeys, k, TRUE)
           /\ trainKeys' = Place(trainKeys, k, FALSE)
    /\ remain' = [remain EXCEPT ![randIdx + 1] = @ - cvArgs.folds]
    /\ prevSid' = cvArgs.sids[it + 1]
    /\ it' = it + 1
    /\ cvPc' = "for"
    /\ UNCHANGED notCv
    /\ UNCHANGED <<pyTrueDiv, _seed, pin, cvArgs, randIdx, lastDraw, returned>>

\* Line 86
Return ==
    /\ cvPc = "for"
    /\ it >= ZipLen
    /\ returned' = Append(returned, [args |-> cvArgs, trainKeys |-> trainKeys,
                                     testKeys |-> testKeys, remain |-> remain])
    /\ cvPc' = "idle"
    /\ UNCHANGED notCv
    /\ UNCHANGED <<pyTrueDiv, _seed, pin, cvArgs, trainKeys, testKeys, remain,
                   prevSid, randIdx, it, lastDraw>>

NoArgs == [rows |-> <<>>, sids |-> <<>>, folds |-> 1, seed |-> 0]

InitCv ==
    /\ pyTrueDiv \in BOOLEAN
    /\ _seed = <<>>
    /\ pin \in SidLists
    /\ cvPc = "idle"
    /\ cvArgs = NoArgs
    /\ trainKeys = <<>> /\ testKeys = <<>> /\ remain = <<>>
    /\ prevSid = 0 /\ randIdx = 0 /\ it = 0
    /\ lastDraw = NoDraw
    /\ returned = <<>>
    /\ OthersParked("cv")

NextCv ==
    \/ CallPartitionCvBins
    \/ CallDisagreedPsms
    \/ ForNext
    \/ WhileTest
    \/ Redraw
    \/ Assign
    \/ Return

SpecCv == InitCv /\ [][NextCv]_vars

\* The interpreter runs a started call on: every enabled step is taken.
FairSpecCv == SpecCv /\ WF_vars(NextCv)

-----------------------------------------------------------------------------
(* Properties of the generator and the partitioner *)

Running == {"for", "while", "redraw", "assign"}

\* Equal scan ids are contiguous
Contiguous(sids) ==
    \A i, j \in 1..Len(sids) :
        (i < j /\ sids[i] = sids[j]) => \A m \in i..j : sids[m] = sids[i]

TestFolds(r, k) == {i \in 1..r.args.folds : k \in Range(r.testKeys[i])}
TrainFolds(r, k) == {i \in 1..r.args.folds : k \in Range(r.trainKeys[i])}

\* C1: when partitionCvBins has returned, every row index is in the test
\* list of exactly one fold and in the train list of exactly the other
\* folds, and each fold's test and train lists together hold n entries.
C1_PartitionComplete ==
    \A c \in 1..Len(returned) :
        LET r == returned[c]
            n == Len(r.args.sids)
        IN  /\ \A p \in 1..n :
                  LET k == r.args.rows[p]
                  IN  /\ Cardinality(TestFolds(r, k)) = 1
                      /\ TrainFolds(r, k) = (1..r.args.folds) \ TestFolds(r, k)
            /\ \A i \in 1..r.args.folds :
                  Len(r.testKeys[i]) + Len(r.trainKeys[i]) = n

C1_Witness ==
    \E c \in 1..Len(returned) :
        LET r == returned[c]
        IN  /\ Len(r.args.sids) >= 3
            /\ \E i, j \in 1..r.args.folds :
                  i # j /\ r.testKeys[i] # <<>> /\ r.testKeys[j] # <<>>

\* C2: when the input has equal scan ids contiguous, two rows of one scan
\* id are in the test list of the same fold.
C2_ScanGroupTogether ==
    \A c \in 1..Len(returned) :
        LET r == returned[c]
        IN  Contiguous(r.args.sids) =>
                \A p, q \in 1..Len(r.args.sids) :
                    r.args.sids[p] = r.args.sids[q] =>
                        TestFolds(r, r.args.rows[p]) = TestFolds(r, r.args.rows[q])

C2_Witness ==
    \E c \in 1..Len(returned) :
        LET r == returned[c]
        IN  /\ Contiguous(r.args.sids)
            /\ \E p, q, u \in 1..Len(r.args.sids) :
                  /\ p # q
                  /\ r.args.sids[p] = r.args.sids[q]
                  /\ r.args.sids[u] # r.args.sids[p]
                  /\ TestFolds(r, r.args.rows[u]) # TestFolds(r, r.args.rows[p])

\* C3: two calls of partitionCvBins with the same arguments (rows, scan ids,
\* fold count, seed) return the same trainKeys and testKeys.
C3_SameSeedSameFolds ==
    \A c, d \in 1..Len(returned) :
        returned[c].args = returned[d].args =>
            /\ returned[c].trainKeys = returned[d].trainKeys
            /\ returned[c].testKeys = returned[d].testKeys

\* C4: on an input with equal scan ids contiguous, the re-draw loop entered
\* at a scan id change is left for the assignment of the row after finitely
\* many draws.
C4_RedrawLoopExits ==
    (cvPc = "while" /\ Contiguous(cvArgs.sids)) ~> (cvPc = "assign")

\* (x + y) % 4294967291 for reduced limb pairs x, y
AddMod(x, y) ==
    LET l == x[2] + y[2]
        lo == l % LimbBase
        hi == x[1] + y[1] + (l \div LimbBase)
    IN  IF LimbLess(<<hi, lo>>, Modulus)
        THEN <<hi, lo>>
        ELSE IF lo >= Modulus[2]
             THEN <<hi - Modulus[1], lo - Modulus[2]>>
             ELSE <<hi - Modulus[1] - 1, lo + LimbBase - Modulus[2]>>

\* (s * g) % 4294967291 for a limb pair s and 0 <= g < 2^8
TimesByte(s, g) ==
    LET low == s[2] * g
    IN  Reduce(s[1] * g + (low \div LimbBase), low % LimbBase)

\* (s * c) % 4294967291 by Horner's rule on the bytes of c:
\* s*c = 2^8 * (s * (c \div 2^8)) + s * (c % 2^8)
RECURSIVE TimesMod(_, _)
TimesMod(s, c) ==
    IF c = 0 THEN <<0, 0>>
    ELSE AddMod(TimesByte(TimesMod(s, c \div 2^8), 2^8), TimesByte(s, c % 2^8))

\* C5: a doRand call leaves in _seed the product of the previous state and
\* 279470273 modulo 4294967291, and returns that new state.
C5_DoRandContract ==
    lastDraw # NoDraw =>
        LET draw == lastDraw[1]
        IN  /\ draw.seed = TimesMod(AddMod(draw.prev, <<0, 0>>), Multiplier)
            /\ draw.value = draw.seed
            /\ LimbLess(draw.seed, Modulus)
            /\ (cvPc \in Running => _seed = draw.seed)

C5_Witness ==
    /\ lastDraw # NoDraw
    /\ lastDraw[1].prev[1] > 0
    /\ lastDraw[1].seed[1] > 0
    /\ lastDraw[1].seed # lastDraw[1].prev

\* ---------------------------------------------------------------------------
\* Target-decoy competition loaders and load_test_scores
\* ---------------------------------------------------------------------------

\* Rows per call: a single file's rows, or the target and decoy rows together
MaxRows == 3

\* The (ScanNr, ExpMass) pair of each PSM of the PIN file, by PSM id: the
\* first two PSMs are of the same spectrum
PinKeys == <<1, 1, 2>>
Ids == DOMAIN PinKeys
Keys == Range(PinKeys)
mapIdToScanMass == [i \in Ids |-> PinKeys[i]]

\* Scores in units of 1e-7, so that "%f" has something to round
RawScores == {13, 20}
Labels == {1, -1}
QTol == <<1, 100>>

SingleFileTdc == {"load_pin_scores_bucket_tdc", "load_pin_scoresAndScanMass_bucket_tdc"}
BestRegardless == {"load_percolator_target_decoy_files_bucket_tdc"}
CompleteOnly == {"load_percolator_target_decoy_files_tdc",
                 "load_percolator_target_decoy_files_tdc_crux"}
NoCompetition == {"load_pin_scores", "load_percolator_target_decoy_files"}
Loaders == SingleFileTdc \cup BestRegardless \cup CompleteOnly \cup NoCompetition
\* The loaders load_test_scores calls, and those that can write their result
ByLoadTestScores == SingleFileTdc \cup BestRegardless \cup NoCompetition
Writers == SingleFileTdc \cup BestRegardless \cup {"load_percolator_target_decoy_files_tdc"}

SeqsUpTo(S, n) == UNION {[1..k -> S] : k \in 0..n}

\* The rows of a file: PSM ids of the PIN file; the scan+mass loader reads the
\* bucket from the row's own columns; crux ids are a prefix and the PSM's key
PinRows == [id : Ids, score : RawScores, label : Labels]
ScanMassRows == [id : {0}, score : RawScores, label : Labels, scan : Keys]
FlatRows == [id : {0}, score : RawScores, label : Labels]
PercolatorRows == [id : Ids, score : RawScores]
CruxRows(prefix) == [id : {<<prefix, k>> : k \in Keys}, score : RawScores]

Numbered(rows) == [i \in DOMAIN rows |-> [rows[i] EXCEPT !.id = i]]

SingleFile(rows) == [rows |-> rows, targets |-> <<>>, decoys |-> <<>>]
TwoFiles(targets, decoys) == [rows |-> <<>>, targets |-> targets, decoys |-> decoys]
TwoFilesUpTo(T, D, max) ==
    UNION {{TwoFiles(t, d) : t \in [1..n -> T], d \in SeqsUpTo(D, max - n)} :
              n \in 0..max}
TwoFilesOf(T, D) == TwoFilesUpTo(T, D, MaxRows)

Inputs(loader) ==
    CASE loader = "load_pin_scores_bucket_tdc" ->
           {SingleFile(r) : r \in SeqsUpTo(PinRows, MaxRows)}
      [] loader = "load_pin_scoresAndScanMass_bucket_tdc" ->
           {SingleFile(Numbered(r)) : r \in SeqsUpTo(ScanMassRows, MaxRows)}
      [] loader = "load_pin_scores" ->
           {SingleFile(Numbered(r)) : r \in SeqsUpTo(FlatRows, MaxRows)}
      [] loader = "load_percolator_target_decoy_files_tdc_crux" ->
           TwoFilesOf(CruxRows("target"), CruxRows("decoy"))
      [] OTHER ->
           TwoFilesOf(PercolatorRows, PercolatorRows)

\* The mapScanMassToId a caller can pass: an id of each bucket (lines 676-679
\* keep the last PSM of each pair)
CallerMaps == {m \in [Keys -> Ids] : \A k \in Keys : mapIdToScanMass[m[k]] = k}

\* ---- The q-value primitive (proteoTorch.pyfiles.qvalsBase, imported at
\* lines 33-36): scores are higher-is-better, thresholds are the distinct
\* scores from the best down, the false discovery rate at a threshold is
\* decoys over targets at or above it, and a q-value is the least false
\* discovery rate of the thresholds at or below the score.
MaxOf(S) == CHOOSE x \in S : \A y \in S : y <= x

RECURSIVE SortDesc(_)
SortDesc(S) == IF S = {} THEN <<>> ELSE <<MaxOf(S)>> \o SortDesc(S \ {MaxOf(S)})

Negate(scores) == [i \in DOMAIN scores |-> -1 * scores[i]]

CountAbove(scores, labels, l, tau) ==
    Cardinality({i \in DOMAIN scores : labels[i] = l /\ scores[i] >= tau})

\* a fraction <<numerator, denominator>>
Fdr(scores, labels, tau) ==
    <<CountAbove(scores, labels, -1, tau),
      IF CountAbove(scores, labels, 1, tau) = 0 THEN 1
      ELSE CountAbove(scores, labels, 1, tau)>>

FracLeq(a, b) == a[1] * b[2] <= b[1] * a[2]

QValue(scores, labels, tau) ==
    LET below == {Fdr(scores, labels, u) : u \in {v \in Range(scores) : v <= tau}}
    IN  CHOOSE q \in below : \A r \in below : FracLeq(q, r)

\* The targets identified at qTol; the code takes len() of the list of them
calcQ(scores, labels, qTol) ==
    {i \in DOMAIN scores :
        labels[i] = 1 /\ FracLeq(QValue(scores, labels, scores[i]), qTol)}

\* (qs, ps): one q-value and one count of targets per threshold
calcQAndNumIdentified(scores, labels) ==
    LET taus == SortDesc(Range(scores))
    IN  [qs |-> [i \in DOMAIN taus |-> QValue(scores, labels, taus[i])],
         ps |-> [i \in DOMAIN taus |-> CountAbove(scores, labels, 1, taus[i])]]

\* ---- The competition

\* What a run of a loader does not change: the call and the first run's file
tdCall == <<tdLoader, tdWrite, outputDirectory, tdIn, tdRun, tdFirst>>
tdLocals == <<rowS, rowLabel>>
tdHandles == <<opened, closed>>

Put(f, k, v) == [x \in DOMAIN f \cup {k} |-> IF x = k THEN v ELSE f[x]]

\* scanMassPair of a row: mapIdToScanMass[psmid] (lines 248, 311, 510), the
\* row's own columns (line 629), or what follows the prefix of the id (line 373)
BucketOf(row) ==
    CASE tdLoader = "load_pin_scoresAndScanMass_bucket_tdc" -> row.scan
      [] tdLoader = "load_percolator_target_decoy_files_tdc_crux" -> row.id[2]
      [] OTHER -> mapIdToScanMass[row.id]

Coefficient(taq, taq2) == IF taq2 > taq THEN -1 ELSE 1

BeatsOrTies(s, incumbent) == s >= incumbent[1]

BeatsIfLower(s, incumbent) == s < incumbent[1]

Beats(s, incumbent) == s > incumbent[1]

FormatExact(s) == s

\* "%f" of a score: six decimals, ten units of 1e-7 each, rounded to nearest;
\* reading the text back gives the rounded score
FormatF(s) == ((s + 5) \div 10) * 10

FileLine(id, s, l) == [id |-> id, score |-> FormatF(s), label |-> l]

\* idKey, scoreKey, labelKey: idKey is SpecId once a row without PSMId was read
PinHeader == <<"PSMId", "score", "Label">>
PercolatorHeader == <<"PSMId", "score", "label">>

\* A field of a row whose text float() or int() rejects (ValueError)
Malformed(row, field) == "malformed" \in DOMAIN row /\ field \in row.malformed

\* The id column of a file: PSMId unless the file says otherwise
IdColumn(file) == IF "idColumn" \in DOMAIN file THEN file.idColumn ELSE "PSMId"

\* The except clauses of lines 470 and 474 only print, so the local keeps the
\* value of the latest row whose field could be read
LastGood(rows, field, i) == MaxOf({j \in 1..i : ~Malformed(rows[j], field)})
Flat(rows, field) == [i \in DOMAIN rows |-> rows[LastGood(rows, field, i)][field]]

\* ... and is unbound when the first row cannot be read (NameError at 476, 477)
UnboundLocal(rows) ==
    rows # <<>> /\ (Malformed(rows[1], "score") \/ Malformed(rows[1], "label"))

Last(list) == IF list = <<>> THEN <<>> ELSE <<list[Len(list)]>>

AdjustedAsRead(coeff, raw) == raw

\* s = posOrNegative_coeff * float(l[scoreKey])
Adjusted(coeff, raw) == coeff * raw

\* One PSM enters the competition of its bucket
Compete(key, s, label, id) ==
    /\ allScores' =
          IF key \in DOMAIN allScores
          THEN IF Beats(s, allScores[key])
               THEN [allScores EXCEPT ![key] = <<s, label>>]
               ELSE allScores
          ELSE Put(allScores, key, <<s, label>>)
    /\ mapScanMassToId' =
          IF key \in DOMAIN allScores
          THEN IF Beats(s, allScores[key])
               THEN [mapScanMassToId EXCEPT ![key] = id]
               ELSE mapScanMassToId
          ELSE Put(mapScanMassToId, key, id)
    /\ keyOrder' = IF key \in DOMAIN allScores THEN keyOrder ELSE Append(keyOrder, key)
    /\ submitted' = submitted \cup {[key |-> key, id |-> id, score |-> s, label |-> label]}

\* First pass of the single-file loaders, the check of both orientations, f.seek(0)
DetectPolarity ==
    /\ tdPc = "start"
    /\ tdLoader \in SingleFileTdc
    /\ ~UnboundLocal(tdIn.rows)
    /\ LET flat_scores == Flat(tdIn.rows, "score")
           flat_labels == Flat(tdIn.rows, "label")
           taq == calcQ(flat_scores, flat_labels, QTol)
           taq2 == calcQ(Negate(flat_scores), flat_labels, QTol)
       IN  /\ posOrNegative_coeff' = Coefficient(Cardinality(taq), Cardinality(taq2))
           /\ rowS' = Last(flat_scores)
           /\ rowLabel' = Last(flat_labels)
    /\ opened' = Append(opened, "input")
    /\ tdPc' = "compete"
    /\ tdPos' = 0
    /\ UNCHANGED <<tdCall, allScores, keyOrder, mapScanMassToId, targetCheck,
                   decoyCheck, tdOut, tdFile, submitted, ltsResult, closed>>
    /\ UNCHANGED notTd

\* One row of the second pass
CompeteRow ==
    /\ tdPc = "compete"
    /\ tdLoader \in SingleFileTdc
    /\ tdPos < Len(tdIn.rows)
    /\ IdColumn(tdIn) # "none"
    /\ LET l == tdIn.rows[tdPos + 1]
           s == IF Malformed(l, "score") THEN rowS[1]
                ELSE Adjusted(posOrNegative_coeff, l.score)
           label == IF Malformed(l, "label") THEN rowLabel[1] ELSE l.label
       IN  /\ Compete(BucketOf(l), s, label, l.id)
           /\ rowS' = <<s>>
           /\ rowLabel' = <<label>>
    /\ tdPos' = tdPos + 1
    /\ UNCHANGED <<tdCall, tdPc, posOrNegative_coeff, targetCheck, decoyCheck,
                   tdOut, tdFile, ltsResult, tdHandles>>
    /\ UNCHANGED notTd

Winners ==
    [scores |-> [i \in DOMAIN keyOrder |-> allScores[keyOrder[i]][1]],
     labels |-> [i \in DOMAIN keyOrder |-> allScores[keyOrder[i]][2]],
     ids |-> [i \in DOMAIN keyOrder |-> mapScanMassToId[keyOrder[i]]],
     keys |-> keyOrder]

\* The output file is opened when writeOutput and an outputDirectory are given
Writing == tdWrite /\ outputDirectory
OutputHandle == IF Writing THEN <<"output">> ELSE <<>>

Written(header, out) ==
    IF Writing
    THEN <<header>> \o [i \in DOMAIN out.keys |->
                           FileLine(out.ids[i], out.scores[i], out.labels[i])]
    ELSE <<>>

\* The winners of the buckets, returned and written
EmitWinners ==
    /\ tdPc = "compete"
    /\ tdLoader \in SingleFileTdc
    /\ tdPos = Len(tdIn.rows)
    /\ tdOut' = Winners
    /\ tdFile' = Written(IF tdIn.rows # <<>> /\ IdColumn(tdIn) = "SpecId"
                         THEN [PinHeader EXCEPT ![1] = "SpecId"] ELSE PinHeader,
                         Winners)
    /\ opened' = opened \o OutputHandle
    /\ closed' = closed \o <<"input">> \o OutputHandle
    /\ tdPc' = "loaded"
    /\ UNCHANGED <<tdCall, tdPos, posOrNegative_coeff, allScores, keyOrder,
                   mapScanMassToId, targetCheck, decoyCheck, submitted, ltsResult,
                   tdLocals>>
    /\ UNCHANGED notTd

\* ---- Separate target and decoy files (load_percolator_output reads each
\* file into its scores and ids, maxPerSid = False)
RowsRead == Len(tdIn.targets) + Len(tdIn.decoys)

\* Both files are read to the end, each inside its own with block, before the
\* competition starts (lines 242-243, 304-305, 367-368)
LoadPercolatorOutput ==
    /\ tdPc = "start"
    /\ tdLoader \in BestRegardless \cup CompleteOnly
    /\ opened' = opened \o <<"targets", "decoys">>
    /\ closed' = closed \o <<"targets", "decoys">>
    /\ tdPc' = "compete"
    /\ UNCHANGED <<tdCall, tdPos, posOrNegative_coeff, allScores, keyOrder,
                   mapScanMassToId, targetCheck, decoyCheck, tdOut, tdFile,
                   submitted, ltsResult, tdLocals>>
    /\ UNCHANGED notTd

\* best-regardless: one target row
CompeteTarget ==
    /\ tdPc = "compete"
    /\ tdLoader \in BestRegardless
    /\ tdPos < Len(tdIn.targets)
    /\ LET l == tdIn.targets[tdPos + 1]
       IN  Compete(BucketOf(l), l.score, 1, l.id)
    /\ tdPos' = tdPos + 1
    /\ UNCHANGED <<tdCall, tdPc, posOrNegative_coeff, targetCheck, decoyCheck,
                   tdOut, tdFile, ltsResult, tdLocals, tdHandles>>
    /\ UNCHANGED notTd

\* best-regardless: one decoy row, after the targets
CompeteDecoy ==
    /\ tdPc = "compete"
    /\ tdLoader \in BestRegardless
    /\ Len(tdIn.targets) <= tdPos /\ tdPos < RowsRead
    /\ LET l == tdIn.decoys[tdPos - Len(tdIn.targets) + 1]
       IN  Compete(BucketOf(l), l.score, -1, l.id)
    /\ tdPos' = tdPos + 1
    /\ UNCHANGED <<tdCall, tdPc, posOrNegative_coeff, targetCheck, decoyCheck,
                   tdOut, tdFile, ltsResult, tdLocals, tdHandles>>
    /\ UNCHANGED notTd

\* best-regardless returns scores and labels; the ids are only written
EmitBest ==
    /\ tdPc = "compete"
    /\ tdLoader \in BestRegardless
    /\ tdPos = RowsRead
    /\ tdOut' = [Winners EXCEPT !.ids = <<>>]
    /\ tdFile' = Written(PercolatorHeader, Winners)
    /\ opened' = opened \o OutputHandle
    /\ closed' = closed \o OutputHandle
    /\ tdPc' = "loaded"
    /\ UNCHANGED <<tdCall, tdPos, posOrNegative_coeff, allScores, keyOrder,
                   mapScanMassToId, targetCheck, decoyCheck, submitted, ltsResult,
                   tdLocals>>
    /\ UNCHANGED notTd

\* competition-complete-only keeps every (score, label) of a bucket
Collect(key, s, label, id) ==
    /\ allScores' =
          IF key \in DOMAIN allScores
          THEN [allScores EXCEPT ![key] = Append(@, <<s, label>>)]
          ELSE Put(allScores, key, <<<<s, label>>>>)
    /\ keyOrder' = IF key \in DOMAIN allScores THEN keyOrder ELSE Append(keyOrder, key)
    /\ submitted' = submitted \cup {[key |-> key, id |-> id, score |-> s, label |-> label]}

\* targetCheck.add is in the else branch only
NoteTarget(check, key, known) == IF known THEN check ELSE check \cup {key}

NoteDecoyIfNew(check, key, known) == IF known THEN check ELSE check \cup {key}

\* decoyCheck.add happens for every decoy (line 257; lines 384 and 387)
NoteDecoy(check, key, known) == check \cup {key}

CollectTarget ==
    /\ tdPc = "compete"
    /\ tdLoader \in CompleteOnly
    /\ tdPos < Len(tdIn.targets)
    /\ LET l == tdIn.targets[tdPos + 1]
       IN  /\ Collect(BucketOf(l), l.score, 1, l.id)
           /\ targetCheck' = NoteTarget(targetCheck, BucketOf(l),
                                        BucketOf(l) \in DOMAIN allScores)
    /\ tdPos' = tdPos + 1
    /\ UNCHANGED <<tdCall, tdPc, posOrNegative_coeff, mapScanMassToId, decoyCheck,
                   tdOut, tdFile, ltsResult, tdLocals, tdHandles>>
    /\ UNCHANGED notTd

CollectDecoy ==
    /\ tdPc = "compete"
    /\ tdLoader \in CompleteOnly
    /\ Len(tdIn.targets) <= tdPos /\ tdPos < RowsRead
    /\ LET l == tdIn.decoys[tdPos - Len(tdIn.targets) + 1]
       IN  /\ Collect(BucketOf(l), l.score, -1, l.id)
           /\ decoyCheck' = NoteDecoy(decoyCheck, BucketOf(l),
                                      BucketOf(l) \in DOMAIN allScores)
    /\ tdPos' = tdPos + 1
    /\ UNCHANGED <<tdCall, tdPc, posOrNegative_coeff, mapScanMassToId, targetCheck,
                   tdOut, tdFile, ltsResult, tdLocals, tdHandles>>
    /\ UNCHANGED notTd

\* max() of (score, label) tuples compares the scores, then the labels
PairLeq(a, b) == a[1] < b[1] \/ (a[1] = b[1] /\ a[2] <= b[2])
MaxPair(list) == CHOOSE p \in Range(list) : \A q \in Range(list) : PairLeq(q, p)

SurvivesEither(key) == key \in targetCheck \/ key \in decoyCheck

Survives(key) == key \in targetCheck /\ key \in decoyCheck

\* The written id is the caller's mapScanMassToId[scanMassPair]; only
\* load_percolator_target_decoy_files_tdc writes
Kept == SelectSeq(keyOrder, Survives)

\* mapScanMassToId[scanMassPair] of line 282 raises KeyError for a kept bucket
\* the caller's map does not have
LookupFails(i) ==
    /\ tdLoader = "load_percolator_target_decoy_files_tdc"
    /\ Kept[i] \notin DOMAIN mapScanMassToId

Complete ==
    LET kept == Kept
    IN  [scores |-> [i \in DOMAIN kept |-> MaxPair(allScores[kept[i]])[1]],
         labels |-> [i \in DOMAIN kept |-> MaxPair(allScores[kept[i]])[2]],
         ids |-> IF tdLoader = "load_percolator_target_decoy_files_tdc"
                 THEN [i \in DOMAIN kept |-> mapScanMassToId[kept[i]]]
                 ELSE <<>>,
         keys |-> kept]

EmitComplete ==
    /\ tdPc = "compete"
    /\ tdLoader \in CompleteOnly
    /\ tdPos = RowsRead
    /\ \A i \in DOMAIN Kept : ~LookupFails(i)
    /\ tdOut' = [Complete EXCEPT !.ids = <<>>]
    /\ tdFile' = Written(PercolatorHeader, Complete)
    /\ opened' = opened \o OutputHandle
    /\ closed' = closed \o OutputHandle
    /\ tdPc' = "loaded"
    /\ UNCHANGED <<tdCall, tdPos, posOrNegative_coeff, allScores, keyOrder,
                   mapScanMassToId, targetCheck, decoyCheck, submitted, ltsResult,
                   tdLocals>>
    /\ UNCHANGED notTd

\* The KeyError leaves the loop and the call; what was written stays written
EmitCompleteKeyError ==
    /\ tdPc = "compete"
    /\ tdLoader \in CompleteOnly
    /\ tdPos = RowsRead
    /\ \E i \in DOMAIN Kept :
          /\ LookupFails(i)
          /\ \A j \in 1..(i - 1) : ~LookupFails(j)
          /\ tdFile' = IF Writing
                       THEN <<PercolatorHeader>> \o
                            [j \in 1..(i - 1) |->
                                FileLine(mapScanMassToId[Kept[j]],
                                         MaxPair(allScores[Kept[j]])[1],
                                         MaxPair(allScores[Kept[j]])[2])]
                       ELSE <<>>
    /\ opened' = opened \o OutputHandle
    /\ tdPc' = "KeyError"
    /\ UNCHANGED <<tdCall, tdPos, posOrNegative_coeff, allScores, keyOrder,
                   mapScanMassToId, targetCheck, decoyCheck, tdOut, submitted,
                   ltsResult, tdLocals, closed>>
    /\ UNCHANGED notTd

\* ---- No competition
Column(rows, field) == [i \in DOMAIN rows |-> rows[i][field]]

\* int() or float() of line 433 or 437 raises ValueError, or line 435 does
Rejected(row) ==
    \/ Malformed(row, "label")
    \/ row.label \notin Labels
    \/ Malformed(row, "score")

\* Without PSMId and SpecId column no id is appended (lines 438-443)
LoadPinScores ==
    /\ tdPc = "start"
    /\ tdLoader = "load_pin_scores"
    /\ \A i \in DOMAIN tdIn.rows : ~Rejected(tdIn.rows[i])
    /\ tdOut' = [scores |-> Column(tdIn.rows, "score"),
                 labels |-> Column(tdIn.rows, "label"),
                 ids |-> IF IdColumn(tdIn) = "none" THEN <<>>
                         ELSE Column(tdIn.rows, "id"),
                 keys |-> <<>>]
    /\ tdPos' = Len(tdIn.rows)
    /\ opened' = Append(opened, "input")
    /\ closed' = Append(closed, "input")
    /\ tdPc' = "loaded"
    /\ UNCHANGED <<tdCall, posOrNegative_coeff, allScores, keyOrder, mapScanMassToId,
                   targetCheck, decoyCheck, tdFile, submitted, ltsResult, tdLocals>>
    /\ UNCHANGED notTd

LoadTargetDecoyFiles ==
    /\ tdPc = "start"
    /\ tdLoader = "load_percolator_target_decoy_files"
    /\ tdOut' = [scores |-> Column(tdIn.targets, "score") \o Column(tdIn.decoys, "score"),
                 labels |-> [i \in DOMAIN tdIn.targets |-> 1]
                               \o [i \in DOMAIN tdIn.decoys |-> -1],
                 ids |-> Column(tdIn.targets, "id") \o Column(tdIn.decoys, "id"),
                 keys |-> <<>>]
    /\ tdPos' = RowsRead
    /\ opened' = opened \o <<"targets", "decoys">>
    /\ closed' = closed \o <<"targets", "decoys">>
    /\ tdPc' = "loaded"
    /\ UNCHANGED <<tdCall, posOrNegative_coeff, allScores, keyOrder, mapScanMassToId,
                   targetCheck, decoyCheck, tdFile, submitted, ltsResult, tdLocals>>
    /\ UNCHANGED notTd

\* ---- load_test_scores after the loader returned
\* The loops of lines 736-744 and 755-758: the count at the last q-value not
\* above qTol, from the best threshold down
RECURSIVE NumAtQNoBreak(_, _, _, _)
NumAtQNoBreak(curve, qTol, i, sofar) ==
    IF i > Len(curve.qs) THEN sofar
    ELSE NumAtQNoBreak(curve, qTol, i + 1,
                       IF FracLeq(curve.qs[i], qTol) THEN curve.ps[i] ELSE sofar)

RECURSIVE NumAtQ(_, _, _, _)
NumAtQ(curve, qTol, i, sofar) ==
    IF i > Len(curve.qs) \/ ~FracLeq(curve.qs[i], qTol) THEN sofar
    ELSE NumAtQ(curve, qTol, i + 1, curve.ps[i])

\* if taqA > taqB: return qsA, psA, taqA; else the negated orientation
KeepsAsIs(taqA, taqB) == taqA > taqB

Evaluate ==
    /\ tdPc = "loaded"
    /\ tdLoader \in ByLoadTestScores
    /\ LET tdc == tdLoader \notin NoCompetition
           A == calcQAndNumIdentified(tdOut.scores, tdOut.labels)
           B == calcQAndNumIdentified(Negate(tdOut.scores), tdOut.labels)
           taqA == NumAtQ(A, QTol, 1, 0)
           taqB == NumAtQ(B, QTol, 1, 0)
       IN  ltsResult' =
              IF tdc \/ KeepsAsIs(taqA, taqB)
              THEN [qs |-> A.qs, ps |-> A.ps, naq |-> taqA, negated |-> FALSE]
              ELSE [qs |-> B.qs, ps |-> B.ps, naq |-> taqB, negated |-> TRUE]
    /\ tdPc' = "done"
    /\ UNCHANGED <<tdCall, tdPos, posOrNegative_coeff, allScores, keyOrder,
                   mapScanMassToId, targetCheck, decoyCheck, tdOut, tdFile, submitted,
                   tdLocals, tdHandles>>
    /\ UNCHANGED notTd

\* ---- The written file is given to the same loader again (the PSMs keep
\* their buckets; the two-file loaders get its targets and its decoys)
Rewritable == {"load_pin_scores_bucket_tdc",
               "load_percolator_target_decoy_files_bucket_tdc",
               "load_percolator_target_decoy_files_tdc"}

IsTarget(line) == line.label = 1
IsDecoy(line) == line.label = -1
ScoreAndId(lines) == [i \in DOMAIN lines |-> [id |-> lines[i].id, score |-> lines[i].score]]

Resubmit ==
    /\ tdPc = "loaded"
    /\ tdRun = 1
    /\ Writing
    /\ tdLoader \in Rewritable
    /\ tdIn' = IF tdLoader \in SingleFileTdc
               THEN SingleFile(Tail(tdFile))
               ELSE TwoFiles(ScoreAndId(SelectSeq(Tail(tdFile), IsTarget)),
                             ScoreAndId(SelectSeq(Tail(tdFile), IsDecoy)))
    /\ tdFirst' = tdFile
    /\ tdRun' = 2
    /\ tdPc' = "start"
    /\ tdPos' = 0
    /\ posOrNegative_coeff' = 1
    /\ allScores' = EmptyMap
    /\ keyOrder' = <<>>
    /\ mapScanMassToId' = IF tdLoader \in CompleteOnly THEN mapScanMassToId ELSE EmptyMap
    /\ targetCheck' = {}
    /\ decoyCheck' = {}
    /\ tdOut' = NoOutput
    /\ tdFile' = <<>>
    /\ submitted' = {}
    /\ rowS' = <<>>
    /\ rowLabel' = <<>>
    /\ opened' = <<>>
    /\ closed' = <<>>
    /\ UNCHANGED <<tdLoader, tdWrite, outputDirectory, ltsResult>>
    /\ UNCHANGED notTd

\* The locals of a call that has just been made
AtCall ==
    /\ tdPc = "start"
    /\ tdPos = 0
    /\ posOrNegative_coeff = 1
    /\ allScores = EmptyMap
    /\ keyOrder = <<>>
    /\ targetCheck = {}
    /\ decoyCheck = {}
    /\ tdOut = NoOutput
    /\ tdFile = <<>>
    /\ submitted = {}
    /\ tdRun = 1
    /\ tdFirst = <<>>
    /\ ltsResult = <<>>
    /\ rowS = <<>>
    /\ rowLabel = <<>>
    /\ opened = <<>>
    /\ closed = <<>>

InitTdc ==
    /\ OthersParked("td")
    /\ tdLoader \in Loaders
    /\ tdWrite \in (IF tdLoader \in Writers THEN BOOLEAN ELSE {FALSE})
    /\ tdIn \in Inputs(tdLoader)
    /\ mapScanMassToId \in (IF tdLoader = "load_percolator_target_decoy_files_tdc"
                            THEN CallerMaps ELSE {EmptyMap})
    /\ outputDirectory = TRUE
    /\ AtCall

NextTdc ==
    \/ DetectPolarity
    \/ CompeteRow
    \/ EmitWinners
    \/ LoadPercolatorOutput
    \/ CompeteTarget
    \/ CompeteDecoy
    \/ EmitBest
    \/ CollectTarget
    \/ CollectDecoy
    \/ EmitComplete
    \/ LoadPinScores
    \/ LoadTargetDecoyFiles
    \/ Evaluate
    \/ Resubmit

SpecTdc == InitTdc /\ [][NextTdc]_vars

\* ---------------------------------------------------------------------------
\* Properties of the competition
\* ---------------------------------------------------------------------------
Loaded == tdPc \in {"loaded", "done"}

\* The polarity-adjusted scores of the input rows of bucket k
Contenders(k) ==
    IF tdLoader \in SingleFileTdc
    THEN {posOrNegative_coeff * tdIn.rows[i].score :
             i \in {j \in DOMAIN tdIn.rows : BucketOf(tdIn.rows[j]) = k}}
    ELSE {tdIn.targets[i].score :
             i \in {j \in DOMAIN tdIn.targets : BucketOf(tdIn.targets[j]) = k}}
         \cup {tdIn.decoys[i].score :
             i \in {j \in DOMAIN tdIn.decoys : BucketOf(tdIn.decoys[j]) = k}}

\* C6: in every competition loader, the score kept for a bucket of the result
\* is the greatest polarity-adjusted score of the PSMs submitted to that
\* bucket, whatever the order of the rows.
C6_KeptScoreIsBucketMax ==
    (Loaded /\ tdLoader \notin NoCompetition) =>
        /\ Len(tdOut.scores) = Len(tdOut.keys)
        /\ \A i \in DOMAIN tdOut.keys :
              /\ Contenders(tdOut.keys[i]) # {}
              /\ tdOut.scores[i] = MaxOf(Contenders(tdOut.keys[i]))

\* A single-file run that negated the scores, where the bucket's first row is
\* not its best
C6_Witness ==
    /\ tdPc = "loaded"
    /\ tdLoader = "load_pin_scores_bucket_tdc"
    /\ posOrNegative_coeff = -1
    /\ Len(tdIn.rows) = MaxRows
    /\ \E i \in DOMAIN tdOut.keys :
          /\ Cardinality(Contenders(tdOut.keys[i])) = 2
          /\ tdOut.scores[i] # posOrNegative_coeff * tdIn.rows[1].score
          /\ BucketOf(tdIn.rows[1]) = tdOut.keys[i]

TargetsIn(k) == {j \in DOMAIN tdIn.targets : BucketOf(tdIn.targets[j]) = k}
DecoysIn(k) == {j \in DOMAIN tdIn.decoys : BucketOf(tdIn.decoys[j]) = k}
TimesKept(k) == Cardinality({i \in DOMAIN tdOut.keys : tdOut.keys[i] = k})

\* C7: competition-complete-only keeps a bucket if and only if a target and a
\* decoy were submitted to it; best-regardless keeps every bucket that got a
\* PSM exactly once (and each kept bucket gives one score).
C7_CompleteOnlyAndBestRegardless ==
    (Loaded /\ tdLoader \in CompleteOnly \cup BestRegardless) =>
        /\ Len(tdOut.scores) = Len(tdOut.keys)
        /\ Len(tdOut.labels) = Len(tdOut.keys)
        /\ \A k \in Keys :
              IF tdLoader \in CompleteOnly
              THEN TimesKept(k) = IF TargetsIn(k) # {} /\ DecoysIn(k) # {} THEN 1 ELSE 0
              ELSE TimesKept(k) = IF TargetsIn(k) \cup DecoysIn(k) # {} THEN 1 ELSE 0

\* Complete-only: one bucket kept, another one with a target only dropped
C7_Witness ==
    /\ tdPc = "loaded"
    /\ tdLoader \in CompleteOnly
    /\ \E k \in Keys : TimesKept(k) = 1
    /\ \E k \in Keys : TimesKept(k) = 0 /\ TargetsIn(k) # {}

\* C8: the id returned or written with a winning score and label is the id of
\* a submitted PSM of that bucket that carried this score and label, in every
\* loader that emits ids.
C8_EmittedIdIsWinners ==
    Loaded =>
        /\ \A i \in DOMAIN tdOut.ids :
              tdLoader \notin NoCompetition =>
                 \E r \in submitted :
                    /\ r.key = tdOut.keys[i] /\ r.id = tdOut.ids[i]
                    /\ r.score = tdOut.scores[i] /\ r.label = tdOut.labels[i]
        /\ \A i \in DOMAIN tdFile :
              i > 1 =>
                 \E r \in submitted :
                    /\ r.key = tdOut.keys[i - 1] /\ r.id = tdFile[i].id
                    /\ FormatF(r.score) = tdFile[i].score /\ r.label = tdFile[i].label

\* The same of the loaders that track the winner's id themselves
C8_ExceptCallerMap ==
    tdLoader # "load_percolator_target_decoy_files_tdc" => C8_EmittedIdIsWinners

Rows(file) == IF file = <<>> THEN {} ELSE Range(Tail(file))
Rerun == tdRun = 2 /\ tdPc = "loaded"

\* C9 as stated: a loader given the file it wrote (the PSMs keeping their
\* buckets) writes the same (id, score, label) rows again, in each competition
\* mode, competition-complete-only included.
C9_RerunSameRows ==
    Rerun => Rows(tdFile) = Rows(tdFirst)

\* C9 amended: the rows come back unchanged in best-regardless mode; in the
\* single-file mode they come back unchanged when the polarity detected on the
\* output is higher-is-better, and with every score negated otherwise; in
\* competition-complete-only mode nothing comes back, every resubmitted bucket
\* holding a single label.
C9_RerunByMode ==
    Rerun =>
        /\ tdLoader \in BestRegardless => Rows(tdFile) = Rows(tdFirst)
        /\ tdLoader \in SingleFileTdc =>
              Rows(tdFile) = {[r EXCEPT !.score = posOrNegative_coeff * r.score] :
                                 r \in Rows(tdFirst)}
        /\ tdLoader \in CompleteOnly => Rows(tdFile) = {} /\ tdOut.scores = <<>>

\* The rerun of a competition-complete-only result that had a row
C9_Witness ==
    /\ Rerun
    /\ tdLoader \in CompleteOnly
    /\ Rows(tdFirst) # {}
    /\ tdPos = Cardinality(Rows(tdFirst))

FracEq(a, b) == FracLeq(a, b) /\ FracLeq(b, a)
SameCurve(r, c) ==
    /\ r.ps = c.ps
    /\ Len(r.qs) = Len(c.qs)
    /\ \A i \in DOMAIN r.qs : FracEq(r.qs[i], c.qs[i])

FlatScores == Column(tdIn.rows, "score")
FlatLabels == Column(tdIn.rows, "label")
AsIs == calcQAndNumIdentified(tdOut.scores, tdOut.labels)
Negated == calcQAndNumIdentified(Negate(tdOut.scores), tdOut.labels)

\* The single-file loaders negate exactly when negation identifies more
DetectionStrict ==
    (tdLoader \in SingleFileTdc /\ tdPc # "start") =>
        (posOrNegative_coeff = -1 <=>
            Cardinality(calcQ(Negate(FlatScores), FlatLabels, QTol))
               > Cardinality(calcQ(FlatScores, FlatLabels, QTol)))

\* load_test_scores returns the negated curve only when it identifies more
EvaluationStrict ==
    (tdPc = "done" /\ tdLoader \in NoCompetition) =>
        \/ SameCurve(ltsResult, AsIs) /\ ltsResult.naq = NumAtQ(AsIs, QTol, 1, 0)
        \/ /\ NumAtQ(Negated, QTol, 1, 0) > NumAtQ(AsIs, QTol, 1, 0)
           /\ SameCurve(ltsResult, Negated)

\* C10: wherever polarity is detected (both single-file loaders, and the
\* evaluation of load_test_scores) the negated orientation is chosen only when
\* it identifies strictly more at qTol; on equal counts the scores stay as is.
C10_NegatedOnlyIfStrictlyMore ==
    DetectionStrict /\ EvaluationStrict

FilePair == {"load_percolator_target_decoy_files_bucket_tdc",
             "load_percolator_target_decoy_files"}

\* C11: for a method given as a target file and a decoy file, load_test_scores
\* does not test the polarity: with and without competition it returns the
\* curve and the count at qTol of the scores as they are, also when the
\* negated scores would identify more.
C11_FilePairNotPolarityTested ==
    (tdPc = "done" /\ tdLoader \in FilePair) =>
        /\ SameCurve(ltsResult, AsIs)
        /\ ltsResult.naq = NumAtQ(AsIs, QTol, 1, 0)

\* The same with competition only (the branch of lines 750-759)
C11_WithCompetition ==
    tdLoader # "load_percolator_target_decoy_files" => C11_FilePairNotPolarityTested

\* ---------------------------------------------------------------------------
\* The count at qTol of any curve the q-value primitive may return
\* ---------------------------------------------------------------------------
MaxCurve == 3

\* q-values below, at and above qTol, and counts
CurveQs == {<<0, 1>>, <<1, 100>>, <<1, 50>>, <<1, 1>>}
CurvePs == {0, 1, 2}
Curves == UNION {{[qs |-> q, ps |-> p] : q \in [1..n -> CurveQs], p \in [1..n -> CurvePs]} :
                    n \in 0..MaxCurve}

\* numIdentifiedAtQ = 0, then the loop of lines 755-758 (736-744 likewise)
ScanCurve ==
    /\ scPc = "scan"
    /\ numIdentifiedAtQ' = NumAtQ(scCurve, QTol, 1, 0)
    /\ scPc' = "done"
    /\ UNCHANGED scCurve
    /\ UNCHANGED notSc

InitScan ==
    /\ OthersParked("sc")
    /\ scCurve \in Curves
    /\ numIdentifiedAtQ = 0
    /\ scPc = "scan"

NextScan == ScanCurve

SpecScan == InitScan /\ [][NextScan]_vars

\* The indices of the longest prefix of the curve with q-values within qTol
WithinQTol(c) == {j \in DOMAIN c.qs : \A i \in 1..j : FracLeq(c.qs[i], QTol)}

\* C12: the count at qTol returned by load_test_scores is the count at the
\* last index of the longest prefix of the curve whose q-values are all at
\* most qTol, and 0 when that prefix is empty; what follows the first q-value
\* above qTol has no effect.
C12_CountAtQTol ==
    scPc = "done" =>
        numIdentifiedAtQ = IF WithinQTol(scCurve) = {} THEN 0
                           ELSE scCurve.ps[MaxOf(WithinQTol(scCurve))]

\* A curve that comes back within qTol after having exceeded it
C12_Witness ==
    /\ scPc = "done"
    /\ Len(scCurve.qs) = MaxCurve
    /\ FracLeq(scCurve.qs[1], QTol)
    /\ ~FracLeq(scCurve.qs[2], QTol)
    /\ FracLeq(scCurve.qs[MaxCurve], QTol)
    /\ scCurve.ps[MaxCurve] # scCurve.ps[1]
    /\ numIdentifiedAtQ = scCurve.ps[1]
    /\ numIdentifiedAtQ > 0


\* ---------------------------------------------------------------------------
\* Files with defects: cells that float() or int() cannot read, labels other
\* than 1 and -1, a missing id column, a caller's map without a bucket, and a
\* call with writeOutput but no outputDirectory
MaxErrRows == 2

BadLabel == 2
Unreadable == 0
IdColumns == {"PSMId", "SpecId", "none"}

\* The rows of a file whose cells may be unreadable; an unreadable cell has no
\* value, Unreadable only fills the field
WithDefects(rows) ==
    UNION {{[id |-> r.id, score |-> s, label |-> l] : s \in RawScores, l \in Labels \cup {BadLabel}}
             \cup {[id |-> r.id, score |-> Unreadable, label |-> l, malformed |-> {"score"}] :
                      l \in Labels}
             \cup {[id |-> r.id, score |-> s, label |-> Unreadable, malformed |-> {"label"}] :
                      s \in RawScores}
             \cup {[id |-> r.id, score |-> Unreadable, label |-> Unreadable,
                    malformed |-> {"score", "label"}]} : r \in rows}

WithScan(rows) == UNION {{[scan |-> k] @@ r : k \in Keys} : r \in rows}

DefectiveFile(rows, column) ==
    [rows |-> rows, targets |-> <<>>, decoys |-> <<>>, idColumn |-> column]

ErrLoaders == SingleFileTdc \cup BestRegardless \cup CompleteOnly \cup {"load_pin_scores"}

ErrInputs(loader) ==
    CASE loader = "load_pin_scores_bucket_tdc" ->
           {DefectiveFile(r, c) :
              r \in SeqsUpTo(WithDefects([id : Ids]), MaxErrRows), c \in IdColumns}
      [] loader = "load_pin_scoresAndScanMass_bucket_tdc" ->
           {DefectiveFile(Numbered(r), c) :
              r \in SeqsUpTo(WithScan(WithDefects([id : {0}])), MaxErrRows),
              c \in IdColumns}
      [] loader = "load_pin_scores" ->
           {DefectiveFile(Numbered(r), c) :
              r \in SeqsUpTo(WithDefects([id : {0}]), MaxErrRows), c \in IdColumns}
      [] loader = "load_percolator_target_decoy_files_tdc_crux" ->
           TwoFilesUpTo(CruxRows("target"), CruxRows("decoy"), MaxErrRows)
      [] OTHER ->
           TwoFilesUpTo(PercolatorRows, PercolatorRows, MaxErrRows)

\* A caller's map need not have every bucket of the files
PartialCallerMaps ==
    UNION {{m \in [S -> Ids] : \A k \in S : mapIdToScanMass[m[k]] = k} :
              S \in SUBSET Keys}

\* flat_scores.append(s) or flat_labels.append(label) of the first row raises
\* NameError; the with block closes the file
Pass1NameError ==
    /\ tdPc = "start"
    /\ tdLoader \in SingleFileTdc
    /\ UnboundLocal(tdIn.rows)
    /\ opened' = Append(opened, "input")
    /\ closed' = Append(closed, "input")
    /\ tdPc' = "NameError"
    /\ UNCHANGED <<tdCall, tdPos, posOrNegative_coeff, allScores, keyOrder,
                   mapScanMassToId, targetCheck, decoyCheck, tdOut, tdFile,
                   submitted, ltsResult, tdLocals>>
    /\ UNCHANGED notTd

\* The q-value primitive is given labels other than 1 and -1: what it does then
\* is not stated, so it may reject them as well as count them as neither
CalcQRejects ==
    /\ tdPc = "start"
    /\ tdLoader \in SingleFileTdc
    /\ ~UnboundLocal(tdIn.rows)
    /\ \E i \in DOMAIN tdIn.rows : Flat(tdIn.rows, "label")[i] \notin Labels
    /\ opened' = Append(opened, "input")
    /\ closed' = Append(closed, "input")
    /\ tdPc' = "calcQ error"
    /\ UNCHANGED <<tdCall, tdPos, posOrNegative_coeff, allScores, keyOrder,
                   mapScanMassToId, targetCheck, decoyCheck, tdOut, tdFile,
                   submitted, ltsResult, tdLocals>>
    /\ UNCHANGED notTd

\* Lines 507 and 626: the first row of the second pass has no id
RowIdError ==
    /\ tdPc = "compete"
    /\ tdLoader \in SingleFileTdc
    /\ tdPos < Len(tdIn.rows)
    /\ IdColumn(tdIn) = "none"
    /\ closed' = Append(closed, "input")
    /\ tdPc' = "ValueError"
    /\ UNCHANGED <<tdCall, tdPos, posOrNegative_coeff, allScores, keyOrder,
                   mapScanMassToId, targetCheck, decoyCheck, tdOut, tdFile,
                   submitted, ltsResult, tdLocals, opened>>
    /\ UNCHANGED notTd

\* Lines 433, 435, 437
LoadPinScoresValueError ==
    /\ tdPc = "start"
    /\ tdLoader = "load_pin_scores"
    /\ \E i \in DOMAIN tdIn.rows : Rejected(tdIn.rows[i])
    /\ opened' = Append(opened, "input")
    /\ closed' = Append(closed, "input")
    /\ tdPc' = "ValueError"
    /\ UNCHANGED <<tdCall, tdPos, posOrNegative_coeff, allScores, keyOrder,
                   mapScanMassToId, targetCheck, decoyCheck, tdOut, tdFile,
                   submitted, ltsResult, tdLocals>>
    /\ UNCHANGED notTd

InitErr ==
    /\ OthersParked("td")
    /\ tdLoader \in ErrLoaders
    /\ tdWrite \in (IF tdLoader \in Writers THEN BOOLEAN ELSE {FALSE})
    /\ outputDirectory \in (IF tdWrite THEN BOOLEAN ELSE {FALSE})
    /\ tdIn \in ErrInputs(tdLoader)
    /\ mapScanMassToId \in (IF tdLoader = "load_percolator_target_decoy_files_tdc"
                            THEN PartialCallerMaps ELSE {EmptyMap})
    /\ AtCall

NextErr ==
    \/ DetectPolarity
    \/ Pass1NameError
    \/ CalcQRejects
    \/ CompeteRow
    \/ RowIdError
    \/ EmitWinners
    \/ LoadPinScores
    \/ LoadPinScoresValueError
    \/ LoadPercolatorOutput
    \/ CompeteTarget
    \/ CompeteDecoy
    \/ EmitBest
    \/ CollectTarget
    \/ CollectDecoy
    \/ EmitComplete
    \/ EmitCompleteKeyError

SpecErr == InitErr /\ [][NextErr]_vars


WellFormed(row) == ~Malformed(row, "score") /\ ~Malformed(row, "label")
WellFormedRows(rows) == SelectSeq(rows, WellFormed)

\* The polarity the readable rows alone give
CoefficientOfReadable ==
    LET good == WellFormedRows(tdIn.rows)
    IN  Coefficient(Cardinality(calcQ(Column(good, "score"),
                                      Column(good, "label"), QTol)),
                    Cardinality(calcQ(Negate(Column(good, "score")),
                                      Column(good, "label"), QTol)))

LeavesFirstPass ==
    /\ tdLoader \in SingleFileTdc
    /\ tdPc = "start"
    /\ tdPc' \notin {"start", "calcQ error"}

PassesUnreadableRow ==
    /\ tdLoader \in SingleFileTdc
    /\ tdPc = "compete"
    /\ tdPos' = tdPos + 1
    /\ ~WellFormed(tdIn.rows[tdPos + 1])

\* C13: in the single-file competition loaders a row whose score or label
\* cannot be read is skipped: the polarity is detected from the readable rows
\* alone and the first pass goes on to the second, and the step of the second
\* pass over such a row changes no bucket's score, label or id.
C13_MalformedRowSkipped ==
    [][/\ LeavesFirstPass =>
              (tdPc' = "compete" /\ posOrNegative_coeff' = CoefficientOfReadable)
       /\ PassesUnreadableRow =>
              UNCHANGED <<allScores, keyOrder, mapScanMassToId>>]_vars


ReadsLabels == SingleFileTdc \cup {"load_pin_scores"}

HasBadLabel(rows) ==
    \E i \in DOMAIN rows : ~Malformed(rows[i], "label") /\ rows[i].label = BadLabel

\* C14: in every loader that reads a label column, a file with a label other
\* than 1 and -1 makes the call fail: the call never returns, and no bucket, no
\* returned list and no written line holds such a label.
C14_BadLabelIsFatal ==
    (tdLoader \in ReadsLabels /\ HasBadLabel(tdIn.rows)) =>
        /\ tdPc # "loaded"
        /\ \A k \in DOMAIN allScores : allScores[k][2] # BadLabel
        /\ \A i \in DOMAIN tdOut.labels : tdOut.labels[i] # BadLabel
        /\ \A i \in 2..Len(tdFile) : tdFile[i].label # BadLabel


\* C15: a file with rows but neither a PSMId nor a SpecId column makes every
\* loader that reads ids fail, and load_pin_scores never returns fewer ids
\* than scores and labels.
C15_NoIdColumnIsFatal ==
    /\ (tdLoader \in ReadsLabels /\ IdColumn(tdIn) = "none" /\ tdIn.rows # <<>>)
          => tdPc # "loaded"
    /\ (tdLoader = "load_pin_scores" /\ tdPc = "loaded")
          => /\ Len(tdOut.ids) = Len(tdOut.scores)
             /\ Len(tdOut.ids) = Len(tdOut.labels)


Exited == tdPc \in {"loaded", "NameError", "ValueError", "KeyError", "calcQ error"}
Handles == {"input", "targets", "decoys", "output"}
Times(list, h) == Cardinality({i \in DOMAIN list : list[i] = h})

\* C17: when a competition loader has exited, by return or by error, every
\* file it opened has been closed exactly once.
C17_HandlesClosedOnce ==
    (tdLoader \in SingleFileTdc \cup BestRegardless \cup CompleteOnly /\ Exited) =>
        \A h \in Handles : Times(opened, h) <= 1 /\ Times(closed, h) = Times(opened, h)


\* ---------------------------------------------------------------------------
\* One method: mainPlot's process(arg) resolves a descriptor desc:scoreKey:file...
\* with parse_arg and calls load_test_scores, or load_test_scores is called
\* with a list of filenames
MaxFiles == 3

Descs == {"percolator", "peptideprophet"}
ScanMassDescs == {"peptideprophet", "scavager", "qranker", "q-ranker"}

Methods ==
    UNION {[entry : {"mainPlot", "load_test_scores"},
            files : {n},
            exists : [1..n -> BOOLEAN],
            tdc : BOOLEAN,
            desc : Descs] : n \in 0..MaxFiles}

\* len(result) of the descriptor split at ':'
Parts(method) == 2 + method.files

\* parse_arg: result[2], and result[3] only when there are exactly four parts
ParseArg ==
    /\ arPc = "start"
    /\ arIn.entry = "mainPlot"
    /\ IF Parts(arIn) < 3
       THEN arPc' = "exit(-2)" /\ fns' = fns
       ELSE IF ~arIn.exists[1]
       THEN arPc' = "exit(-3)" /\ fns' = fns
       ELSE IF Parts(arIn) = 4 /\ ~arIn.exists[2]
       THEN arPc' = "exit(-3)" /\ fns' = fns
       ELSE /\ arPc' = "load_test_scores"
            /\ fns' = IF Parts(arIn) = 4 THEN <<1, 2>> ELSE <<1>>
    /\ UNCHANGED <<arIn, arLoader, filesRead>>
    /\ UNCHANGED notAr

CallLoadTestScores ==
    /\ arPc = "start"
    /\ arIn.entry = "load_test_scores"
    /\ fns' = [i \in 1..arIn.files |-> i]
    /\ arPc' = "load_test_scores"
    /\ UNCHANGED <<arIn, arLoader, filesRead>>
    /\ UNCHANGED notAr

\* The files of the list up to the first that cannot be opened
Opened(list) ==
    {list[i] : i \in {j \in DOMAIN list : \A k \in 1..j : k = j \/ arIn.exists[list[k]]}}

ReadAll(list) ==
    /\ filesRead' = {f \in Opened(list) : arIn.exists[f]}
    /\ arPc' = IF \A i \in DOMAIN list : arIn.exists[list[i]] THEN "returned" ELSE "IOError"

LoadOneFile ==
    /\ arPc = "load_test_scores"
    /\ Len(fns) = 1
    /\ arLoader' = IF arIn.tdc
                   THEN IF arIn.desc \in ScanMassDescs
                        THEN "load_pin_scoresAndScanMass_bucket_tdc"
                        ELSE "load_pin_scores_bucket_tdc"
                   ELSE "load_pin_scores"
    /\ ReadAll(fns)
    /\ UNCHANGED <<arIn, fns>>
    /\ UNCHANGED notAr

LoadTwoFiles ==
    /\ arPc = "load_test_scores"
    /\ Len(fns) = 2
    /\ arLoader' = IF arIn.tdc
                   THEN "load_percolator_target_decoy_files_bucket_tdc"
                   ELSE "load_percolator_target_decoy_files"
    /\ ReadAll(fns)
    /\ UNCHANGED <<arIn, fns>>
    /\ UNCHANGED notAr

\* The else branch of line 724: no file or more than two
LoadValueError ==
    /\ arPc = "load_test_scores"
    /\ Len(fns) \notin {1, 2}
    /\ arPc' = "ValueError"
    /\ UNCHANGED <<arIn, fns, arLoader, filesRead>>
    /\ UNCHANGED notAr

InitArgs ==
    /\ OthersParked("ar")
    /\ arIn \in Methods
    /\ fns = <<>>
    /\ arLoader = ""
    /\ filesRead = {}
    /\ arPc = "start"

NextArgs ==
    \/ ParseArg
    \/ CallLoadTestScores
    \/ LoadOneFile
    \/ LoadTwoFiles
    \/ LoadValueError

SpecArgs == InitArgs /\ [][NextArgs]_vars

\* C16: a method with more than two input files fails before any of its files
\* is read, whether load_test_scores is called with the list or mainPlot
\* resolves a descriptor naming the files.
C16_MoreThanTwoFilesFail ==
    arIn.files > 2 => (filesRead = {} /\ arPc # "returned")


\* What a file and a sign alone say about the buckets after n rows of the
\* second pass: the winner of a bucket is the first of its rows to reach the
\* bucket's highest signed score
SignedScore(rows, sign, i) == sign * Flat(rows, "score")[i]
RowsOfBucket(rows, n, k) == {i \in 1..n : rows[i].scan = k}
WinnerOfBucket(rows, sign, n, k) ==
    CHOOSE w \in RowsOfBucket(rows, n, k) :
        \A i \in RowsOfBucket(rows, n, k) :
            \/ SignedScore(rows, sign, i) < SignedScore(rows, sign, w)
            \/ (SignedScore(rows, sign, i) = SignedScore(rows, sign, w) /\ w <= i)

BucketsBySign(rows, sign, n) ==
    [k \in {rows[i].scan : i \in 1..n} |->
        LET w == WinnerOfBucket(rows, sign, n, k)
        IN  [score |-> SignedScore(rows, sign, w),
             label |-> Flat(rows, "label")[w],
             id |-> rows[w].id]]

BucketsHeld ==
    [k \in DOMAIN allScores |->
        [score |-> allScores[k][1], label |-> allScores[k][2],
         id |-> mapScanMassToId[k]]]

InSecondPass ==
    tdLoader = "load_pin_scoresAndScanMass_bucket_tdc" /\ tdPc \in {"compete", "loaded"}

\* C18: in the scan+mass loader the sign does not change once the second pass
\* has started, and the buckets held during and after the second pass are those
\* the file and the sign alone determine, every row's score taken times the sign.
C18_SecondPassBySignOnly ==
    /\ [](InSecondPass => BucketsHeld = BucketsBySign(tdIn.rows, posOrNegative_coeff, tdPos))
    /\ [][InSecondPass => posOrNegative_coeff' = posOrNegative_coeff]_vars

\* a file read to its end under the sign -1, with a bucket two rows competed for
C18_Witness ==
    /\ InSecondPass
    /\ tdPc = "loaded"
    /\ posOrNegative_coeff = -1
    /\ Len(tdIn.rows) > Cardinality(DOMAIN allScores)
    /\ DOMAIN allScores # {}


\* ---------------------------------------------------------------------------
\* disagreedDecoys: the decoys method A ranks high and method B ranks low
MaxPsms == 3

ScoresA == {13, 20, 27}
Thresholds == {<<1, 5>>, <<1, 2>>}

PsmLists ==
    UNION {[psmsA : [1..n -> ScoresA], psmsB : [1..n -> RawScores],
            labelsB : [1..n -> Labels], threshA : Thresholds, threshB : Thresholds] :
              n \in 0..MaxPsms}

\* sorted(..., key = lambda x: x[0]): ascending and stable, here on the
\* indices of the entries
RECURSIVE InsertByScore(_, _, _)
InsertByScore(sorted, scores, e) ==
    IF sorted = <<>> THEN <<e>>
    ELSE IF scores[e] < scores[Head(sorted)] THEN <<e>> \o sorted
    ELSE <<Head(sorted)>> \o InsertByScore(Tail(sorted), scores, e)

RECURSIVE SortedByScore(_, _)
SortedByScore(scores, n) ==
    IF n = 0 THEN <<>> ELSE InsertByScore(SortedByScore(scores, n - 1), scores, n)

Ascending(scores) == SortedByScore(scores, Len(scores))

\* enumerate() counts from 0
RankByA ==
    /\ ddPc = "start"
    /\ ranksA' = LET order == Ascending(ddIn.psmsA)
                 IN  [psmId \in Range(order) |->
                         (CHOOSE p \in DOMAIN order : order[p] = psmId) - 1]
    /\ ddLines' = <<"PSMId">>
    /\ ddPc' = "flag"
    /\ UNCHANGED <<ddIn, ddI, counter, ddReported>>
    /\ UNCHANGED notDd

FlaggedByBAlone(i, rankA, denom) == i * ddIn.threshB[2] <= ddIn.threshB[1] * denom

\* rankB <= threshB and rankA >= threshA, the ranks being i / denom
Flagged(i, rankA, denom) ==
    /\ i * ddIn.threshB[2] <= ddIn.threshB[1] * denom
    /\ rankA * ddIn.threshA[2] >= ddIn.threshA[1] * denom

FlagEntry ==
    /\ ddPc = "flag"
    /\ ddI < Len(ddIn.psmsB)
    /\ LET psmId == Ascending(ddIn.psmsB)[ddI + 1]
           wanted == /\ ddIn.labelsB[psmId] = -1
                     /\ Flagged(ddI, ranksA[psmId], Len(ddIn.psmsA))
       IN  /\ ddLines' = IF wanted THEN Append(ddLines, psmId) ELSE ddLines
           /\ counter' = IF wanted THEN counter + 1 ELSE counter
    /\ ddI' = ddI + 1
    /\ UNCHANGED <<ddIn, ranksA, ddReported, ddPc>>
    /\ UNCHANGED notDd

ReportDecoys ==
    /\ ddPc = "flag"
    /\ ddI = Len(ddIn.psmsB)
    /\ ddReported' = <<counter>>
    /\ ddPc' = "done"
    /\ UNCHANGED <<ddIn, ranksA, ddI, ddLines, counter>>
    /\ UNCHANGED notDd

InitDd ==
    /\ OthersParked("dd")
    /\ ddIn \in PsmLists
    /\ ranksA = <<>>
    /\ ddI = 0
    /\ ddLines = <<>>
    /\ counter = 0
    /\ ddReported = <<>>
    /\ ddPc = "start"

NextDd ==
    \/ RankByA
    \/ FlagEntry
    \/ ReportDecoys

SpecDd == InitDd /\ [][NextDd]_vars

\* The entries before entry e in the ascending ordering of scores
Before(scores, e) ==
    {j \in DOMAIN scores : scores[j] < scores[e] \/ (scores[j] = scores[e] /\ j < e)}

\* i / n <= thresh and i / n >= thresh on fractions
AtMost(i, n, thresh) == i * thresh[2] <= thresh[1] * n
AtLeast(i, n, thresh) == i * thresh[2] >= thresh[1] * n

Disagreed ==
    {e \in DOMAIN ddIn.psmsB :
        /\ ddIn.labelsB[e] = -1
        /\ AtMost(Cardinality(Before(ddIn.psmsB, e)), Len(ddIn.psmsB), ddIn.threshB)
        /\ AtLeast(Cardinality(Before(ddIn.psmsA, e)), Len(ddIn.psmsA), ddIn.threshA)}

IdLines == SubSeq(ddLines, 2, Len(ddLines))

MaxScored == 12

Deciles == 10

\* Scores that rise, fall or are all equal along the input
ScoreShapes(n) == {[i \in 1..n |-> i], [i \in 1..n |-> n - i], [i \in 1..n |-> 0]}

Scored ==
    UNION {[scores : ScoreShapes(n), labels : [1..n -> Labels]] : n \in 0..MaxScored}

\* int(np.ceil(float(len(scores)) / 10.))
inc == (Len(dcIn.scores) + Deciles - 1) \div Deciles

\* the label of element ind of the ascending ordering
LabelAt(i) == dcIn.labels[Ascending(dcIn.scores)[i + 1]]

dcLoop == <<ind, decile, currDecile, numTargetsInDecile, numDecoysInDecile>>
dcLists == <<decileTargets, decileDecoys, decileRatios>>

\* ind < decile
CountElement ==
    /\ dcPc = "loop"
    /\ ind < Len(dcIn.scores)
    /\ ind < decile
    /\ IF LabelAt(ind) = 1
       THEN /\ numTargetsInDecile' = numTargetsInDecile + 1
            /\ numDecoysInDecile' = numDecoysInDecile
       ELSE /\ numDecoysInDecile' = numDecoysInDecile + 1
            /\ numTargetsInDecile' = numTargetsInDecile
    /\ ind' = ind + 1
    /\ UNCHANGED <<dcIn, decile, currDecile, dcLists, dcPc>>
    /\ UNCHANGED notDc

StoreCounts ==
    /\ decileTargets' = [decileTargets EXCEPT ![currDecile + 1] = numTargetsInDecile]
    /\ decileDecoys' = [decileDecoys EXCEPT ![currDecile + 1] = numDecoysInDecile]

StoreRatio ==
    decileRatios' = [decileRatios EXCEPT ![currDecile + 1] =
                        <<numTargetsInDecile, numDecoysInDecile>>]

\* The else branch: the element at index ind is looked at but put in no count
CloseDecile ==
    /\ dcPc = "loop"
    /\ ind < Len(dcIn.scores)
    /\ ~(ind < decile)
    /\ numDecoysInDecile # 0
    /\ StoreCounts
    /\ StoreRatio
    /\ currDecile' = currDecile + 1
    /\ decile' = decile + inc
    /\ numTargetsInDecile' = 0
    /\ numDecoysInDecile' = 0
    /\ ind' = ind + 1
    /\ UNCHANGED <<dcIn, dcPc>>
    /\ UNCHANGED notDc

\* float(numTargetsInDecile) / float(numDecoysInDecile) with no decoy
CloseDecileZeroDivision ==
    /\ dcPc = "loop"
    /\ ind < Len(dcIn.scores)
    /\ ~(ind < decile)
    /\ numDecoysInDecile = 0
    /\ StoreCounts
    /\ dcPc' = "ZeroDivisionError"
    /\ UNCHANGED <<dcIn, dcLoop, decileRatios>>
    /\ UNCHANGED notDc

\* Lines 902-904, mutated: the ratio is left alone when there is no decoy
LastDecileGuarded ==
    /\ dcPc = "loop"
    /\ ind = Len(dcIn.scores)
    /\ StoreCounts
    /\ IF numDecoysInDecile # 0 THEN StoreRatio ELSE decileRatios' = decileRatios
    /\ dcPc' = "done"
    /\ UNCHANGED <<dcIn, dcLoop>>
    /\ UNCHANGED notDc

\* Lines 902-904
LastDecile ==
    /\ dcPc = "loop"
    /\ ind = Len(dcIn.scores)
    /\ numDecoysInDecile # 0
    /\ StoreCounts
    /\ StoreRatio
    /\ dcPc' = "done"
    /\ UNCHANGED <<dcIn, dcLoop>>
    /\ UNCHANGED notDc

LastDecileZeroDivision ==
    /\ dcPc = "loop"
    /\ ind = Len(dcIn.scores)
    /\ numDecoysInDecile = 0
    /\ StoreCounts
    /\ dcPc' = "ZeroDivisionError"
    /\ UNCHANGED <<dcIn, dcLoop, decileRatios>>
    /\ UNCHANGED notDc

InitDc ==
    /\ OthersParked("dc")
    /\ dcIn \in Scored
    /\ ind = 0
    /\ decile = inc
    /\ currDecile = 0
    /\ numTargetsInDecile = 0
    /\ numDecoysInDecile = 0
    /\ decileTargets = [d \in 1..Deciles |-> 0]
    /\ decileDecoys = [d \in 1..Deciles |-> 0]
    /\ decileRatios = [d \in 1..Deciles |-> <<0, 1>>]
    /\ dcPc = "loop"

NextDc ==
    \/ CountElement
    \/ CloseDecile
    \/ CloseDecileZeroDivision
    \/ LastDecile
    \/ LastDecileZeroDivision

SpecDc == InitDc /\ [][NextDc]_vars

RECURSIVE SumOf(_)
SumOf(list) == IF list = <<>> THEN 0 ELSE Head(list) + SumOf(Tail(list))

NumLabelled(l) == Cardinality({i \in DOMAIN dcIn.labels : dcIn.labels[i] = l})

\* C20: when decileInfo reports, the target counts of the ten deciles add up
\* to the number of targets of the input and the decoy counts to the number
\* of decoys.
C20_DecileSumsAreTotals ==
    dcPc = "done" =>
        /\ SumOf(decileTargets) = NumLabelled(1)
        /\ SumOf(decileDecoys) = NumLabelled(-1)


\* A call that returned with its output file written
WroteOutput == tdPc = "loaded" /\ Writing /\ tdLoader \in Writers

RoundedToSixDecimals(inFile, inResult) ==
    /\ inFile % 10 = 0
    /\ inFile - inResult <= 5
    /\ inResult - inFile <= 5

InCall == cvPc \in {"for", "while", "redraw", "assign"}

\* remain is kept times folds, so that n / folds has no fraction to lose
Capacity(i) == <<remain[i], cvArgs.folds>>

FloorShare(i) ==
    LET n == Len(cvArgs.sids)
        k == cvArgs.folds
    IN  IF i = 1 THEN n - (k - 1) * (n \div k) ELSE n \div k

RECURSIVE SumUpTo(_, _)
SumUpTo(list, n) == IF n = 0 THEN 0 ELSE list[n] + SumUpTo(list, n - 1)

\* C22: during a call of partitionCvBins the capacity of a fold is its integer
\* share, n - (k-1)*floor(n/k) for the first fold and floor(n/k) for the
\* others, less one for every row the fold was chosen for, and the capacities
\* sum to n less the number of rows processed.
C22_CapacitiesAreFloorShares ==
    InCall =>
        /\ \A i \in 1..cvArgs.folds :
              Capacity(i)[1] =
                 Capacity(i)[2] * (FloorShare(i) - Len(testKeys[i]))
        /\ SumUpTo(remain, cvArgs.folds) = cvArgs.folds * (Len(cvArgs.sids) - it)

\* ... which holds where "/" on ints is floor division
C22_UnderFloorDivision == ~pyTrueDiv => C22_CapacitiesAreFloorShares


\* The row about to be assigned opens a scan group: it is the first row, or
\* its scan id is not the one of the row before
OpensGroup == it = 0 \/ cvArgs.sids[it + 1] # prevSid

\* C23: whenever partitionCvBins has selected the fold of a scan group, of the
\* first group as of a later one, that fold has capacity left: its remaining
\* capacity is strictly positive.
C23_SelectedFoldHasCapacity ==
    (cvPc = "assign" /\ OpensGroup) => remain[randIdx + 1] > 0

\* ... which holds for every group but the first
C23_AfterTheFirstGroup ==
    (cvPc = "assign" /\ OpensGroup /\ it > 0) => remain[randIdx + 1] > 0


\* The loaders that keep one incumbent per bucket while they read
KeepsIncumbent == SingleFileTdc \cup BestRegardless

BucketNow(k) == <<allScores[k][1], allScores[k][2], mapScanMassToId[k]>>
BucketNext(k) == <<allScores'[k][1], allScores'[k][2], mapScanMassToId'[k]>>

\* C24: while a loader competes, no step lowers the score a bucket holds, and
\* a step that does not raise it leaves the bucket's score, label and id as
\* they were: only a strictly greater score replaces the incumbent, so of
\* equal scores the first submitted stays.
C24_OnlyGreaterReplaces ==
    [][(tdPc = "compete" /\ tdLoader \in KeepsIncumbent) =>
          \A k \in DOMAIN allScores :
              /\ k \in DOMAIN allScores'
              /\ BucketNext(k)[1] >= BucketNow(k)[1]
              /\ BucketNext(k)[1] = BucketNow(k)[1] => BucketNext(k) = BucketNow(k)]_vars

\* two PSMs of one bucket were submitted with equal scores
C24_Witness ==
    /\ tdPc = "compete"
    /\ tdLoader \in KeepsIncumbent
    /\ \E a \in submitted, b \in submitted :
          /\ a.key = b.key
          /\ a.score = b.score
          /\ a.id # b.id
          /\ a.label # b.label
          /\ allScores[a.key][1] = a.score


\* The counted elements between two decile boundaries of an input of n
\* elements, in the ascending ordering: the indices ind < decile at their
\* turn, the index that meets the boundary being counted nowhere
Flushed(n) ==
    LET step == (n + Deciles - 1) \div Deciles
        FirstOf(d) == IF d = 0 THEN 0 ELSE d * step + 1
        LastOf(d) == IF (d + 1) * step - 1 < n - 1 THEN (d + 1) * step - 1 ELSE n - 1
        last == IF n <= step THEN 0 ELSE (n - 1) \div step
    IN  [d \in 0..last |-> FirstOf(d)..LastOf(d)]

HoldsDecoy(indices) == \E i \in indices : LabelAt(i) # 1

EveryFlushedDecileHoldsDecoy ==
    LET deciles == Flushed(Len(dcIn.scores))
    IN  \A d \in DOMAIN deciles : HoldsDecoy(deciles[d])

DcExited == dcPc \in {"done", "ZeroDivisionError"}

\* C25: decileInfo ends in a division by zero, before it prints, for every
\* input with a flushed decile, the final one included, that holds no decoy;
\* it completes exactly when every flushed decile holds a decoy.
C25_ZeroDecoysDivideByZero ==
    DcExited => (dcPc = "done" <=> EveryFlushedDecileHoldsDecoy)

\* a call that flushed a decile holding a decoy and failed at its final decile
C25_Witness ==
    /\ dcPc = "ZeroDivisionError"
    /\ ind = Len(dcIn.scores)
    /\ currDecile > 0

====
